---------------------------- MODULE Spec2Model ----------------------------
(***************************************************************************)
(* The lexical analyser of MiniLang (src/analisador.py, class Lexer) as a  *)
(* state machine.  A text is a sequence of one-character strings; the      *)
(* cursor (pos, line, column) and the locals of the three readers are the  *)
(* state; one action is one pass through the body of a loop of the code.   *)
(***************************************************************************)
EXTENDS Integers, Sequences, FiniteSets, TLC

VARIABLES
    text,           \* Lexer.text
    pos,            \* Lexer.pos (0-based offset)
    line,           \* Lexer.line
    column,         \* Lexer.column
    tokens,         \* the local list `tokens` of tokenize()
    pc,             \* where the call of tokenize() stands
    start_column,   \* local of read_number / read_string / read_identifier
    quote_char,     \* local of read_string
    result,         \* local of the readers
    error,          \* the exception that ended the call, if any
    start_pos,      \* history: pos when the running reader was entered
    spans,          \* history: spans[i] = source span of tokens[i]
    iterations,     \* history: passes through the driving loop begun so far
    iter_pos,       \* history: pos at the head of the last pass begun
    scopes,         \* the Scope objects created so far, by identity (1, 2, ...)
    scope_stack,    \* ScopeManager.scope_stack (identities)
    current_scope,  \* ScopeManager.current_scope (an identity)
    global_scope,   \* ScopeManager.global_scope (an identity)
    calls,          \* history: calls made on the ScopeManager so far
    last_call       \* history: the last call on the ScopeManager, how it ended

\* The history of the passes of the driving loop.
history == <<iterations, iter_pos>>

\* The state of a Lexer and of its call of tokenize().
lex_vars == <<text, pos, line, column, tokens, pc, start_column, quote_char,
              result, error, start_pos, spans, history>>

\* The state of a ScopeManager.
scope_vars ==
    <<scopes, scope_stack, current_scope, global_scope, calls, last_call>>

vars == <<lex_vars, scope_vars>>

-----------------------------------------------------------------------------
(* Bounds of the checked inputs. *)

MaxLen == 4

\* Characters of the string-literal inputs.
StringChars == {"\"", "'", "\\", "n", "t", "\n", " "}

\* Characters of the numeric-literal inputs.
NumberChars == {"1", "2", "3", ".", " "}

\* Characters of the operator inputs.
OperatorChars == {"=", "!", "<", ">", "+", "?", "\t"}

\* Every character of the single-character table.
PunctChars == {"+", "-", "*", "/", "=", "<", ">", "(", ")", "[", "]", ","}

\* Pieces of the identifier inputs: the keywords and what may surround them.
WordPieces == {<<"i", "f">>, <<"w", "h", "i", "l", "e">>, <<"f", "o", "r">>,
               <<"p", "r", "i", "n", "t">>, <<"I", "F">>, <<"x">>, <<"_">>,
               <<"1">>, <<" ">>}

\* One character of each class the driving loop tells apart.
MixedChars == {" ", "\n", "1", ".", "\"", "a", "=", "+", "?", "\\"}

SeqsUpTo(S, n) == UNION {[1..k -> S] : k \in 0..n}

RECURSIVE Concat(_)
Concat(ss) == IF ss = <<>> THEN <<>> ELSE Head(ss) \o Concat(Tail(ss))

Texts ==
    SeqsUpTo(StringChars, MaxLen + 1)
      \cup SeqsUpTo(NumberChars, MaxLen + 1)
      \cup SeqsUpTo(OperatorChars, MaxLen)
      \cup SeqsUpTo(PunctChars, MaxLen - 2)
      \cup {Concat(ws) : ws \in SeqsUpTo(WordPieces, MaxLen)}
      \cup SeqsUpTo(MixedChars, MaxLen - 1)

-----------------------------------------------------------------------------
(* Characters and their classes. *)

\* Python's None, as current_char() and peek_char() return it at the end.
None == "None"

Digits == {"0", "1", "2", "3", "4", "5", "6", "7", "8", "9"}

Letters == {"a", "b", "c", "d", "e", "f", "g", "h", "i", "j", "k", "l", "m",
            "n", "o", "p", "q", "r", "s", "t", "u", "v", "w", "x", "y", "z",
            "A", "B", "C", "D", "E", "F", "G", "H", "I", "J", "K", "L", "M",
            "N", "O", "P", "Q", "R", "S", "T", "U", "V", "W", "X", "Y", "Z"}

isdigit(c) == c \in Digits

isalpha(c) == c \in Letters

isalnum(c) == isalpha(c) \/ isdigit(c)

\* Mutant of is_blank: the newline is a blank too.
is_blank_Newline(c) == c \in {" ", "\t", "\n"}

\* c in ' \t'
is_blank(c) == c \in {" ", "\t"}

\* Lexer.keywords
keywords ==
    (<<"i", "f">> :> "IF") @@ (<<"w", "h", "i", "l", "e">> :> "WHILE")
      @@ (<<"f", "o", "r">> :> "FOR") @@ (<<"p", "r", "i", "n", "t">> :> "PRINT")

\* Mutant of keywords_get: a text that only starts with a keyword is taken
\* for that keyword.
keywords_get_Prefix(r) ==
    LET starts == {k \in DOMAIN keywords :
                      Len(r) >= Len(k) /\ SubSeq(r, 1, Len(k)) = k}
    IN  IF starts # {} THEN keywords[CHOOSE k \in starts : TRUE]
        ELSE "IDENTIFIER"

\* self.keywords.get(result, TokenType.IDENTIFIER)
keywords_get(r) == IF r \in DOMAIN keywords THEN keywords[r] ELSE "IDENTIFIER"

\* single_char_tokens
single_char_tokens ==
    ("+" :> "PLUS") @@ ("-" :> "MINUS") @@ ("*" :> "MULTIPLY")
      @@ ("/" :> "DIVIDE") @@ ("=" :> "ASSIGN") @@ ("<" :> "LESS_THAN")
      @@ (">" :> "GREATER_THAN") @@ ("(" :> "LEFT_PAREN")
      @@ (")" :> "RIGHT_PAREN") @@ ("[" :> "LEFT_BRACKET")
      @@ ("]" :> "RIGHT_BRACKET") @@ ("," :> "COMMA")

\* The four two-character operators of tokenize(), by their first character.
two_char_tokens ==
    ("=" :> "EQUAL") @@ ("!" :> "NOT_EQUAL") @@ ("<" :> "LESS_EQUAL")
      @@ (">" :> "GREATER_EQUAL")

Token(type, value, l, c) ==
    [type |-> type, value |-> value, line |-> l, column |-> c]

NoError == [kind |-> "none", ch |-> "", line |-> 0, column |-> 0]

\* SyntaxError("String não fechada na linha {line}, coluna {column}")
UnterminatedString(l, c) ==
    [kind |-> "UnterminatedString", ch |-> "", line |-> l, column |-> c]

\* SyntaxError("Caractere não reconhecido '{ch}' na linha {line}, coluna {column}")
UnexpectedCharacter(ch, l, c) ==
    [kind |-> "UnexpectedCharacter", ch |-> ch, line |-> l, column |-> c]

\* result += None: TypeError, can only concatenate str (not "NoneType") to str
TypeError == [kind |-> "TypeError", ch |-> "", line |-> 0, column |-> 0]

-----------------------------------------------------------------------------
(* The cursor. *)

Cursor == [pos |-> pos, line |-> line, column |-> column]

\* Lexer.current_char, at offset p
current_char(p) == IF p >= Len(text) THEN None ELSE text[p + 1]

\* Lexer.peek_char(offset = 1), from offset p
peek_char(p) == IF p + 1 >= Len(text) THEN None ELSE text[p + 2]

\* Mutant of advance: past a newline the column is not reset.
advance_NoReset(c) ==
    IF c.pos < Len(text) /\ text[c.pos + 1] = "\n"
    THEN [pos |-> c.pos + 1, line |-> c.line + 1, column |-> c.column + 1]
    ELSE [pos |-> c.pos + 1, line |-> c.line, column |-> c.column + 1]

\* Lexer.advance, on cursor c
advance(c) ==
    IF c.pos < Len(text) /\ text[c.pos + 1] = "\n"
    THEN [pos |-> c.pos + 1, line |-> c.line + 1, column |-> 1]
    ELSE [pos |-> c.pos + 1, line |-> c.line, column |-> c.column + 1]

SetCursor(c) == pos' = c.pos /\ line' = c.line /\ column' = c.column

\* tokens.append(tok), the token covering text[from+1 .. to]
Emit(tok, from, to) ==
    /\ tokens' = Append(tokens, tok)
    /\ spans' = Append(spans, [from |-> from, to |-> to])


-----------------------------------------------------------------------------
(* The scope manager of src/escopos.py: values, variables, scopes.  A Scope  *)
(* object is known by its identity, its place in `scopes`.                   *)

\* A Python value: the name of its type and what tells it from the other
\* values of the type.
PyValue(py, v) == [py |-> py, v |-> v]

\* float(value), of an int
float(value) == PyValue("float", value.v)

\* parent = None
NoScope == 0

\* Variable(name, value, var_type, is_constant, line)
Variable(name, value, var_type, is_constant, line_declared) ==
    [name |-> name, value |-> value, var_type |-> var_type,
     is_constant |-> is_constant, line_declared |-> line_declared]

\* Scope.__init__: the fields of the new object
Scope(name, parent) ==
    [name |-> name, parent |-> parent, variables |-> <<>>, children |-> <<>>]

\* Scope.__init__(name, parent) on the objects ss: the new object is the
\* last one, and its parent, if any, has it appended to its children.
NewScope(ss, name, parent) ==
    LET id == Len(ss) + 1
        linked == IF parent # NoScope
                  THEN [ss EXCEPT ![parent].children = Append(@, id)]
                  ELSE ss
    IN  Append(linked, Scope(name, parent))

\* The None that get_variable returns, in the shape of a Variable.
NoVariable == Variable(None, PyValue("NoneType", 0), None, FALSE, 0)

\* Mutant of get_variable: the parents are not searched.
get_variable_Local(ss, id, name) ==
    IF name \in DOMAIN ss[id].variables THEN ss[id].variables[name]
    ELSE NoVariable

\* Scope.get_variable(name) on the object id: the variable, or None
RECURSIVE get_variable(_, _, _)
get_variable(ss, id, name) ==
    IF name \in DOMAIN ss[id].variables THEN ss[id].variables[name]
    ELSE IF ss[id].parent # NoScope THEN get_variable(ss, ss[id].parent, name)
    ELSE NoVariable

\* The object in which Scope.get_variable(name), called on id, finds the
\* name, or NoScope.
RECURSIVE holder(_, _, _)
holder(ss, id, name) ==
    IF name \in DOMAIN ss[id].variables THEN id
    ELSE IF ss[id].parent # NoScope THEN holder(ss, ss[id].parent, name)
    ELSE NoScope

\* The type define_variable infers for a value when var_type is None.
inferred_type(value) ==
    IF value.py \in {"int", "bool"} THEN "int"
    ELSE IF value.py = "float" THEN "float"
    ELSE IF value.py = "str" THEN "string"
    ELSE IF value.py = "list" THEN "list"
    ELSE IF value.py = "bool" THEN "bool"
    ELSE "unknown"

\* A call on the ScopeManager and how it ended (history).
Call(op, name, raised, ret, scope) ==
    [op |-> op, name |-> name, raised |-> raised, ret |-> ret, scope |-> scope]

\* ScopeManager.__init__
ManagerInit ==
    /\ scopes = NewScope(<<>>, "global", NoScope)
    /\ global_scope = 1
    /\ current_scope = 1
    /\ scope_stack = <<1>>
    /\ calls = 0
    /\ last_call = Call("__init__", "", "", "None", NoScope)

-----------------------------------------------------------------------------
(* The state after Lexer(text), at the call of tokenize(). *)

Init ==
    /\ text \in Texts
    /\ pos = 0
    /\ line = 1
    /\ column = 1
    /\ tokens = <<>>
    /\ pc = "tokenize"
    /\ start_column = 0
    /\ quote_char = None
    /\ result = <<>>
    /\ error = NoError
    /\ start_pos = 0
    /\ spans = <<>>
    /\ iterations = 0
    /\ iter_pos = 0
    /\ ManagerInit

\* Mutant of Raise: the fault is noted and the tokens read so far are
\* returned.
Raise_Partial(e) == error' = e /\ pc' = "returned"

\* The exception leaves tokenize(): nothing is returned.
Raise(e) == error' = e /\ pc' = "raised"

\* Mutant of category: a '.' starts a number.
category_DotStartsNumber(c, p) ==
    IF is_blank(c) THEN "blank"
    ELSE IF c = "\n" THEN "newline"
    ELSE IF isdigit(c) \/ c = "." THEN "digit"
    ELSE IF c \in {"\"", "'"} THEN "quote"
    ELSE IF isalpha(c) \/ c = "_" THEN "identifier"
    ELSE IF c \in DOMAIN two_char_tokens /\ p = "=" THEN "two_char"
    ELSE IF c \in DOMAIN single_char_tokens THEN "single_char"
    ELSE "unrecognized"

\* Mutant of category: the single-character table is tried before the
\* two-character operators.
category_SingleFirst(c, p) ==
    IF is_blank(c) THEN "blank"
    ELSE IF c = "\n" THEN "newline"
    ELSE IF isdigit(c) THEN "digit"
    ELSE IF c \in {"\"", "'"} THEN "quote"
    ELSE IF isalpha(c) \/ c = "_" THEN "identifier"
    ELSE IF c \in DOMAIN single_char_tokens THEN "single_char"
    ELSE IF c \in DOMAIN two_char_tokens /\ p = "=" THEN "two_char"
    ELSE "unrecognized"

\* The branch of the driving loop that takes character c, followed by p:
\* the if-chain of tokenize(), first match first.
category(c, p) ==
    IF is_blank(c) THEN "blank"
    ELSE IF c = "\n" THEN "newline"
    ELSE IF isdigit(c) THEN "digit"
    ELSE IF c \in {"\"", "'"} THEN "quote"
    ELSE IF isalpha(c) \/ c = "_" THEN "identifier"
    ELSE IF c \in DOMAIN two_char_tokens /\ p = "=" THEN "two_char"
    ELSE IF c \in DOMAIN single_char_tokens THEN "single_char"
    ELSE "unrecognized"

\* The driving loop is at its head with a character of category k to read.
AtLoop(k) ==
    /\ pc = "tokenize"
    /\ current_char(pos) # None
    /\ category(current_char(pos), peek_char(pos)) = k

Locals == <<start_column, quote_char, result, start_pos>>

\* A pass through the body of the driving loop begins (history).
BeginIteration == iterations' = iterations + 1 /\ iter_pos' = pos

-----------------------------------------------------------------------------
(* Blanks and newlines. *)

\* if self.current_char() in ' \t': self.skip_whitespace(); continue
TokenizeWhitespace ==
    /\ AtLoop("blank")
    /\ pc' = "skip_whitespace"
    /\ BeginIteration
    /\ UNCHANGED scope_vars
    /\ UNCHANGED <<text, pos, line, column, tokens, spans, error, Locals>>

\* skip_whitespace: one pass through the loop
SkipWhitespaceAdvance ==
    /\ pc = "skip_whitespace"
    /\ current_char(pos) # None /\ is_blank(current_char(pos))
    /\ SetCursor(advance(Cursor))
    /\ UNCHANGED <<scope_vars, history>>
    /\ UNCHANGED <<text, tokens, spans, pc, error, Locals>>

\* skip_whitespace: the loop ends, back to the driving loop
SkipWhitespaceReturn ==
    /\ pc = "skip_whitespace"
    /\ ~(current_char(pos) # None /\ is_blank(current_char(pos)))
    /\ pc' = "tokenize"
    /\ UNCHANGED <<scope_vars, history>>
    /\ UNCHANGED <<text, pos, line, column, tokens, spans, error, Locals>>

\* Mutant of TokenizeNewline: the newline is not passed.
TokenizeNewline_NoAdvance ==
    /\ AtLoop("newline")
    /\ Emit(Token("NEWLINE", <<"\\", "n">>, line, column), pos, pos + 1)
    /\ BeginIteration
    /\ UNCHANGED scope_vars
    /\ UNCHANGED <<text, pos, line, column, pc, error, Locals>>

\* if self.current_char() == '\n': append NEWLINE, advance
TokenizeNewline ==
    /\ AtLoop("newline")
    /\ Emit(Token("NEWLINE", <<"\\", "n">>, line, column), pos, pos + 1)
    /\ SetCursor(advance(Cursor))
    /\ BeginIteration
    /\ UNCHANGED scope_vars
    /\ UNCHANGED <<text, pc, error, Locals>>

-----------------------------------------------------------------------------
(* read_number *)

\* if self.current_char().isdigit(): read_number() is entered
TokenizeNumber ==
    /\ AtLoop("digit")
    /\ start_column' = column
    /\ result' = <<>>
    /\ start_pos' = pos
    /\ pc' = "read_number_int"
    /\ BeginIteration
    /\ UNCHANGED scope_vars
    /\ UNCHANGED <<text, pos, line, column, tokens, spans, error, quote_char>>

\* the loop condition of both digit loops
MoreDigits == current_char(pos) # None /\ isdigit(current_char(pos))

\* one pass through the loop of the integer part
ReadNumberInt ==
    /\ pc = "read_number_int"
    /\ MoreDigits
    /\ result' = Append(result, current_char(pos))
    /\ SetCursor(advance(Cursor))
    /\ UNCHANGED <<scope_vars, history>>
    /\ UNCHANGED <<text, tokens, spans, pc, error, start_column, quote_char,
                   start_pos>>

\* Mutant of ReadNumberDot: after the point the reader is back in the loop
\* of the integer part, and takes a second point.
ReadNumberDot_Again ==
    /\ pc = "read_number_int"
    /\ ~MoreDigits
    /\ current_char(pos) = "."
    /\ result' = Append(result, current_char(pos))
    /\ SetCursor(advance(Cursor))
    /\ UNCHANGED <<scope_vars, history>>
    /\ UNCHANGED <<text, tokens, spans, pc, error, start_column, quote_char,
                   start_pos>>

\* if self.current_char() == '.': the point is taken
ReadNumberDot ==
    /\ pc = "read_number_int"
    /\ ~MoreDigits
    /\ current_char(pos) = "."
    /\ result' = Append(result, current_char(pos))
    /\ SetCursor(advance(Cursor))
    /\ pc' = "read_number_frac"
    /\ UNCHANGED <<scope_vars, history>>
    /\ UNCHANGED <<text, tokens, spans, error, start_column, quote_char,
                   start_pos>>

\* one pass through the loop of the fractional part
ReadNumberFrac ==
    /\ pc = "read_number_frac"
    /\ MoreDigits
    /\ result' = Append(result, current_char(pos))
    /\ SetCursor(advance(Cursor))
    /\ UNCHANGED <<scope_vars, history>>
    /\ UNCHANGED <<text, tokens, spans, pc, error, start_column, quote_char,
                   start_pos>>

\* return Token(NUMBER, result, self.line, start_column), appended by tokenize()
ReadNumberReturn ==
    /\ ~MoreDigits
    /\ \/ pc = "read_number_int" /\ current_char(pos) # "."
       \/ pc = "read_number_frac"
    /\ Emit(Token("NUMBER", result, line, start_column), start_pos, pos)
    /\ pc' = "tokenize"
    /\ UNCHANGED <<scope_vars, history>>
    /\ UNCHANGED <<text, pos, line, column, error, Locals>>

-----------------------------------------------------------------------------
(* read_string *)

\* Mutant of escape: the escaped character is kept as it is written.
escape_Raw(x, q) == x

\* What the character x after a backslash adds to result, in a literal
\* opened by q.
escape(x, q) ==
    IF x = "n" THEN "\n"
    ELSE IF x = "t" THEN "\t"
    ELSE IF x = "\\" THEN "\\"
    ELSE IF x = q THEN q
    ELSE x

\* if self.current_char() in '"\'': read_string() is entered and passes the
\* opening quote
TokenizeString ==
    /\ AtLoop("quote")
    /\ start_column' = column
    /\ quote_char' = current_char(pos)
    /\ result' = <<>>
    /\ start_pos' = pos
    /\ SetCursor(advance(Cursor))
    /\ pc' = "read_string"
    /\ BeginIteration
    /\ UNCHANGED scope_vars
    /\ UNCHANGED <<text, tokens, spans, error>>

\* Mutant of InString: either quote character ends the loop.
InString_AnyQuote == current_char(pos) # None /\ current_char(pos) \notin {"\"", "'"}

\* the loop condition of read_string
InString == current_char(pos) # None /\ current_char(pos) # quote_char

\* one pass through the loop, on a backslash: it is passed, the character
\* after it is decoded and passed; with no character after it, result += None
ReadStringEscape ==
    /\ pc = "read_string"
    /\ InString
    /\ current_char(pos) = "\\"
    /\ LET c1 == advance(Cursor)
           x == current_char(c1.pos)
       IN  IF x = None
           THEN /\ SetCursor(c1)
                /\ Raise(TypeError)
                /\ UNCHANGED result
           ELSE /\ result' = Append(result, escape(x, quote_char))
                /\ SetCursor(advance(c1))
                /\ UNCHANGED <<pc, error>>
    /\ UNCHANGED <<scope_vars, history>>
    /\ UNCHANGED <<text, tokens, spans, start_column, quote_char, start_pos>>

\* one pass through the loop, on any other character
ReadStringChar ==
    /\ pc = "read_string"
    /\ InString
    /\ current_char(pos) # "\\"
    /\ result' = Append(result, current_char(pos))
    /\ SetCursor(advance(Cursor))
    /\ UNCHANGED <<scope_vars, history>>
    /\ UNCHANGED <<text, tokens, spans, pc, error, start_column, quote_char,
                   start_pos>>

\* the closing quote is passed;
\* return Token(STRING, result, self.line, start_column), appended by tokenize()
ReadStringReturn ==
    /\ pc = "read_string"
    /\ ~InString
    /\ current_char(pos) = quote_char
    /\ LET c1 == advance(Cursor)
       IN  /\ SetCursor(c1)
           /\ Emit(Token("STRING", result, c1.line, start_column),
                   start_pos, c1.pos)
    /\ pc' = "tokenize"
    /\ UNCHANGED <<scope_vars, history>>
    /\ UNCHANGED <<text, error, Locals>>

\* raise SyntaxError("String não fechada ...", self.line, start_column)
ReadStringUnterminated ==
    /\ pc = "read_string"
    /\ ~InString
    /\ current_char(pos) # quote_char
    /\ Raise(UnterminatedString(line, start_column))
    /\ UNCHANGED <<scope_vars, history>>
    /\ UNCHANGED <<text, pos, line, column, tokens, spans, Locals>>

-----------------------------------------------------------------------------
(* read_identifier *)

\* if self.current_char().isalpha() or self.current_char() == '_':
\* read_identifier() is entered
TokenizeIdentifier ==
    /\ AtLoop("identifier")
    /\ start_column' = column
    /\ result' = <<>>
    /\ start_pos' = pos
    /\ pc' = "read_identifier"
    /\ BeginIteration
    /\ UNCHANGED scope_vars
    /\ UNCHANGED <<text, pos, line, column, tokens, spans, error, quote_char>>

\* the loop condition of read_identifier
MoreIdentifier ==
    /\ current_char(pos) # None
    /\ isalnum(current_char(pos)) \/ current_char(pos) = "_"

\* one pass through the loop
ReadIdentifierChar ==
    /\ pc = "read_identifier"
    /\ MoreIdentifier
    /\ result' = Append(result, current_char(pos))
    /\ SetCursor(advance(Cursor))
    /\ UNCHANGED <<scope_vars, history>>
    /\ UNCHANGED <<text, tokens, spans, pc, error, start_column, quote_char,
                   start_pos>>

\* return Token(token_type, result, self.line, start_column), appended by
\* tokenize()
ReadIdentifierReturn ==
    /\ pc = "read_identifier"
    /\ ~MoreIdentifier
    /\ Emit(Token(keywords_get(result), result, line, start_column),
            start_pos, pos)
    /\ pc' = "tokenize"
    /\ UNCHANGED <<scope_vars, history>>
    /\ UNCHANGED <<text, pos, line, column, error, Locals>>

-----------------------------------------------------------------------------
(* Operators, punctuation, the unrecognized character, the end. *)

\* the four two-character operators: the token, then advance twice
TokenizeTwoChar ==
    /\ AtLoop("two_char")
    /\ LET c == current_char(pos)
       IN  Emit(Token(two_char_tokens[c], <<c, "=">>, line, column),
                pos, pos + 2)
    /\ SetCursor(advance(advance(Cursor)))
    /\ BeginIteration
    /\ UNCHANGED scope_vars
    /\ UNCHANGED <<text, pc, error, Locals>>

\* if self.current_char() in single_char_tokens: the token, then advance
TokenizeSingleChar ==
    /\ AtLoop("single_char")
    /\ LET c == current_char(pos)
       IN  Emit(Token(single_char_tokens[c], <<c>>, line, column),
                pos, pos + 1)
    /\ SetCursor(advance(Cursor))
    /\ BeginIteration
    /\ UNCHANGED scope_vars
    /\ UNCHANGED <<text, pc, error, Locals>>

\* raise SyntaxError("Caractere não reconhecido ...")
TokenizeUnrecognized ==
    /\ AtLoop("unrecognized")
    /\ Raise(UnexpectedCharacter(current_char(pos), line, column))
    /\ BeginIteration
    /\ UNCHANGED scope_vars
    /\ UNCHANGED <<text, pos, line, column, tokens, spans, Locals>>

\* Mutant of TokenizeEOF: the sequence is returned without the marker.
TokenizeEOF_NoMarker ==
    /\ pc = "tokenize"
    /\ current_char(pos) = None
    /\ pc' = "returned"
    /\ UNCHANGED <<scope_vars, history>>
    /\ UNCHANGED <<text, pos, line, column, tokens, spans, error, Locals>>

\* the loop ends: tokens.append(Token(EOF, '', line, column)); return tokens
TokenizeEOF ==
    /\ pc = "tokenize"
    /\ current_char(pos) = None
    /\ Emit(Token("EOF", <<>>, line, column), pos, pos)
    /\ pc' = "returned"
    /\ UNCHANGED <<scope_vars, history>>
    /\ UNCHANGED <<text, pos, line, column, error, Locals>>

Next ==
    \/ TokenizeWhitespace
    \/ SkipWhitespaceAdvance
    \/ SkipWhitespaceReturn
    \/ TokenizeNewline
    \/ TokenizeNumber
    \/ ReadNumberInt
    \/ ReadNumberDot
    \/ ReadNumberFrac
    \/ ReadNumberReturn
    \/ TokenizeString
    \/ ReadStringEscape
    \/ ReadStringChar
    \/ ReadStringReturn
    \/ ReadStringUnterminated
    \/ TokenizeIdentifier
    \/ ReadIdentifierChar
    \/ ReadIdentifierReturn
    \/ TokenizeTwoChar
    \/ TokenizeSingleChar
    \/ TokenizeUnrecognized
    \/ TokenizeEOF

Spec == Init /\ [][Next]_vars

-----------------------------------------------------------------------------
(* The calls on a ScopeManager. *)

\* Bounds of the checked calls.
MaxCalls == 4

\* The names of variables, the values defined and assigned, the names of
\* scopes.
Names == {"x", "y"}

DefineValues ==
    {PyValue("int", 1), PyValue("float", 1), PyValue("bool", 1),
     PyValue("str", 0), PyValue("list", 0), PyValue("NoneType", 0)}

SetValues == {PyValue("int", 2), PyValue("float", 1)}

ScopeNames == {"block"}

\* The var_type arguments: None (the default, the type is inferred) or a type.
VarTypes == {None, "float"}

\* A Lexer that is not running, beside the ScopeManager.
LexerIdle ==
    /\ text = <<>>
    /\ pos = 0
    /\ line = 1
    /\ column = 1
    /\ tokens = <<>>
    /\ pc = "idle"
    /\ start_column = 0
    /\ quote_char = None
    /\ result = <<>>
    /\ error = NoError
    /\ start_pos = 0
    /\ spans = <<>>
    /\ iterations = 0
    /\ iter_pos = 0

ScopeInit == LexerIdle /\ ManagerInit

\* One more call is made (history).
Called(c) == calls' = calls + 1 /\ last_call' = c

\* Mutant of EnterScope: the new scope is made a child of the global scope.
EnterScope_UnderGlobal(name) ==
    /\ calls < MaxCalls
    /\ LET new_scope == Len(scopes) + 1
       IN  /\ scopes' = NewScope(scopes, name, global_scope)
           /\ current_scope' = new_scope
           /\ scope_stack' = Append(scope_stack, new_scope)
           /\ Called(Call("enter_scope", name, "", "Scope", new_scope))
    /\ UNCHANGED <<global_scope, lex_vars>>

\* ScopeManager.enter_scope(name)
EnterScope(name) ==
    /\ calls < MaxCalls
    /\ LET new_scope == Len(scopes) + 1
       IN  /\ scopes' = NewScope(scopes, name, current_scope)
           /\ current_scope' = new_scope
           /\ scope_stack' = Append(scope_stack, new_scope)
           /\ Called(Call("enter_scope", name, "", "Scope", new_scope))
    /\ UNCHANGED <<global_scope, lex_vars>>

\* Mutant of ExitScope: the stack is popped and current_scope is left on the
\* scope popped.
ExitScope_KeepCurrent ==
    /\ calls < MaxCalls
    /\ IF Len(scope_stack) <= 1
       THEN /\ Called(Call("exit_scope", "", "", "None", NoScope))
            /\ UNCHANGED scope_stack
       ELSE /\ scope_stack' = SubSeq(scope_stack, 1, Len(scope_stack) - 1)
            /\ Called(Call("exit_scope", "", "", "Scope",
                           scope_stack[Len(scope_stack)]))
    /\ UNCHANGED <<scopes, current_scope, global_scope, lex_vars>>

\* ScopeManager.exit_scope()
ExitScope ==
    /\ calls < MaxCalls
    /\ IF Len(scope_stack) <= 1
       THEN /\ Called(Call("exit_scope", "", "", "None", NoScope))
            /\ UNCHANGED <<scope_stack, current_scope>>
       ELSE LET old_scope == scope_stack[Len(scope_stack)]
                rest == SubSeq(scope_stack, 1, Len(scope_stack) - 1)
            IN  /\ scope_stack' = rest
                /\ current_scope' = rest[Len(rest)]
                /\ Called(Call("exit_scope", "", "", "Scope", old_scope))
    /\ UNCHANGED <<scopes, global_scope, lex_vars>>

\* Mutant of DefineVariable: a name that an ancestor scope holds is refused
\* too.
DefineVariable_Inherited(name, value, var_type, is_constant, l) ==
    /\ calls < MaxCalls
    /\ IF get_variable(scopes, current_scope, name) # NoVariable
       THEN /\ Called(Call("define_variable", name, "NameError", "", NoScope))
            /\ UNCHANGED scopes
       ELSE LET t == IF var_type = None THEN inferred_type(value) ELSE var_type
                variable == Variable(name, value, t, is_constant, l)
            IN  /\ scopes' = [scopes EXCEPT ![current_scope].variables =
                                                (name :> variable) @@ @]
                /\ Called(Call("define_variable", name, "", "Variable",
                               current_scope))
    /\ UNCHANGED <<scope_stack, current_scope, global_scope, lex_vars>>

\* ScopeManager.define_variable(name, value, var_type, is_constant, line):
\* Scope.define_variable on the current scope
DefineVariable(name, value, var_type, is_constant, l) ==
    /\ calls < MaxCalls
    /\ IF name \in DOMAIN scopes[current_scope].variables
       THEN /\ Called(Call("define_variable", name, "NameError", "", NoScope))
            /\ UNCHANGED scopes
       ELSE LET t == IF var_type = None THEN inferred_type(value) ELSE var_type
                variable == Variable(name, value, t, is_constant, l)
            IN  /\ scopes' = [scopes EXCEPT ![current_scope].variables =
                                                (name :> variable) @@ @]
                /\ Called(Call("define_variable", name, "", "Variable",
                               current_scope))
    /\ UNCHANGED <<scope_stack, current_scope, global_scope, lex_vars>>

\* Mutant of SetVariable: the value is bound in the current scope, as a new
\* variable when that scope does not hold the name.
SetVariable_Local(name, value) ==
    /\ calls < MaxCalls
    /\ LET variable == get_variable(scopes, current_scope, name)
           converted == IF value.py = "int" /\ variable.var_type = "float"
                        THEN float(value)
                        ELSE value
       IN  IF variable = NoVariable
           THEN /\ Called(Call("set_variable", name, "", "False", NoScope))
                /\ UNCHANGED scopes
           ELSE IF variable.is_constant
           THEN /\ Called(Call("set_variable", name, "ValueError", "", NoScope))
                /\ UNCHANGED scopes
           ELSE /\ scopes' = [scopes EXCEPT ![current_scope].variables =
                                  (name :> [variable EXCEPT !.value = converted])
                                      @@ @]
                /\ Called(Call("set_variable", name, "", "True", current_scope))
    /\ UNCHANGED <<scope_stack, current_scope, global_scope, lex_vars>>

\* Mutant of SetVariable: a name that is not defined is defined in the
\* current scope.
SetVariable_Defines(name, value) ==
    /\ calls < MaxCalls
    /\ LET variable == get_variable(scopes, current_scope, name)
           h == holder(scopes, current_scope, name)
           converted == IF value.py = "int" /\ variable.var_type = "float"
                        THEN float(value)
                        ELSE value
       IN  IF variable = NoVariable
           THEN /\ scopes' = [scopes EXCEPT ![current_scope].variables =
                                  (name :> Variable(name, value,
                                                    inferred_type(value),
                                                    FALSE, 1)) @@ @]
                /\ Called(Call("set_variable", name, "", "True", current_scope))
           ELSE IF variable.is_constant
           THEN /\ Called(Call("set_variable", name, "ValueError", "", NoScope))
                /\ UNCHANGED scopes
           ELSE /\ scopes' = [scopes EXCEPT ![h].variables[name].value =
                                                converted]
                /\ Called(Call("set_variable", name, "", "True", h))
    /\ UNCHANGED <<scope_stack, current_scope, global_scope, lex_vars>>

\* Mutant of SetVariable: a constant is assigned like any variable.
SetVariable_NoConstant(name, value) ==
    /\ calls < MaxCalls
    /\ LET variable == get_variable(scopes, current_scope, name)
           h == holder(scopes, current_scope, name)
           converted == IF value.py = "int" /\ variable.var_type = "float"
                        THEN float(value)
                        ELSE value
       IN  IF variable = NoVariable
           THEN /\ Called(Call("set_variable", name, "", "False", NoScope))
                /\ UNCHANGED scopes
           ELSE /\ scopes' = [scopes EXCEPT ![h].variables[name].value =
                                                converted]
                /\ Called(Call("set_variable", name, "", "True", h))
    /\ UNCHANGED <<scope_stack, current_scope, global_scope, lex_vars>>

\* ScopeManager.set_variable(name, value, line): Scope.set_variable on the
\* current scope (the warning it may print is not modelled)
SetVariable(name, value) ==
    /\ calls < MaxCalls
    /\ LET variable == get_variable(scopes, current_scope, name)
           h == holder(scopes, current_scope, name)
           converted == IF value.py = "int" /\ variable.var_type = "float"
                        THEN float(value)
                        ELSE value
       IN  IF variable = NoVariable
           THEN /\ Called(Call("set_variable", name, "", "False", NoScope))
                /\ UNCHANGED scopes
           ELSE IF variable.is_constant
           THEN /\ Called(Call("set_variable", name, "ValueError", "", NoScope))
                /\ UNCHANGED scopes
           ELSE /\ scopes' = [scopes EXCEPT ![h].variables[name].value =
                                                converted]
                /\ Called(Call("set_variable", name, "", "True", h))
    /\ UNCHANGED <<scope_stack, current_scope, global_scope, lex_vars>>

ScopeNext ==
    \/ \E name \in ScopeNames : EnterScope(name)
    \/ ExitScope
    \/ \E name \in Names, value \in DefineValues, var_type \in VarTypes,
          is_constant \in BOOLEAN :
           DefineVariable(name, value, var_type, is_constant, 1)
    \/ \E name \in Names, value \in SetValues : SetVariable(name, value)

ScopeSpec == ScopeInit /\ [][ScopeNext]_vars

-----------------------------------------------------------------------------
(* What the claims speak of, computed from the text alone. *)

\* The line of the character at offset p: 1 + the newlines before it.
LineAt(p) == 1 + Cardinality({i \in 1..p : text[i] = "\n"})

\* The column of the character at offset p: 1 + the characters between the
\* last newline before it and it.
ColumnAt(p) ==
    LET nl == {i \in 1..p : text[i] = "\n"}
        last == IF nl = {} THEN 0 ELSE CHOOSE i \in nl : \A j \in nl : j <= i
    IN  p - last + 1

\* The offset where the maximal run of characters of S starting at p ends.
RECURSIVE RunEnd(_, _)
RunEnd(p, S) ==
    IF p < Len(text) /\ text[p + 1] \in S THEN RunEnd(p + 1, S) ELSE p

\* The source characters of token i.
Covered(i) == SubSeq(text, spans[i].from + 1, spans[i].to)

\* The first source character of token i (None for the end-of-input token).
FirstChar(i) == current_char(spans[i].from)

TokenIds == 1..Len(tokens)

-----------------------------------------------------------------------------
\* C1: when tokenize() returns, the sequence holds exactly one EOF token, as
\* its last element (and none before it returns); for the empty text the
\* sequence is exactly [EOF at line 1, column 1].
C1_EOFLast ==
    /\ pc # "returned" => \A i \in TokenIds : tokens[i].type # "EOF"
    /\ pc = "returned" =>
         /\ tokens # <<>>
         /\ \A i \in TokenIds : tokens[i].type = "EOF" <=> i = Len(tokens)
         /\ text = <<>> => tokens = <<Token("EOF", <<>>, 1, 1)>>

\* tokenize() has returned a sequence of several tokens.
C1_Witness == pc = "returned" /\ Len(tokens) >= 3

\* C2 (as claimed): a call that fails fails with the unterminated-string
\* error or with the unrecognized-character error, and with nothing else.
C2_TwoErrorKinds ==
    pc = "raised" => error.kind \in {"UnterminatedString", "UnexpectedCharacter"}

\* C3 (as claimed): every token but EOF carries the line and the column of
\* its first source character.
C3_TokenPosition ==
    \A i \in TokenIds :
        tokens[i].type # "EOF" =>
            /\ tokens[i].line = LineAt(spans[i].from)
            /\ tokens[i].column = ColumnAt(spans[i].from)

\* C4 (as claimed): when the string reader fails, it fails with the
\* unterminated-string error at the line and column of the opening quote.
C4_UnterminatedAtOpening ==
    [][(pc = "read_string" /\ pc' = "raised") =>
           error' = UnterminatedString(LineAt(start_pos), ColumnAt(start_pos))]_vars

\* The characters the claim C5 lists as recognized, c followed by p.
C5_Recognized(c, p) ==
    \/ c \in {" ", "\t", "\n", "\"", "'", "_"}
    \/ c \in Digits \cup Letters
    \/ c \in {"=", "!", "<", ">"} /\ p = "="
    \/ c \in {"+", "-", "*", "/", "=", "<", ">", "(", ")", "[", "]", ","}

C6_Kind(c) ==
    CASE c = "=" -> "EQUAL"
      [] c = "!" -> "NOT_EQUAL"
      [] c = "<" -> "LESS_EQUAL"
      [] c = ">" -> "GREATER_EQUAL"

\* C6: with the driving loop on =, !, < or > followed by '=', the step
\* emits the one token of the two-character kind and moves the cursor by two.
C6_TwoCharFirst ==
    [][(/\ pc = "tokenize"
        /\ current_char(pos) \in {"=", "!", "<", ">"}
        /\ peek_char(pos) = "=") =>
           /\ tokens' = Append(tokens, Token(C6_Kind(current_char(pos)),
                                             <<current_char(pos), "=">>,
                                             line, column))
           /\ pos' = pos + 2
           /\ pc' = "tokenize"]_vars

\* '<=' then '>=' were each emitted as one token.
C6_Witness ==
    /\ Len(tokens) >= 2
    /\ tokens[1].type = "LESS_EQUAL"
    /\ tokens[2].type = "GREATER_EQUAL"
    /\ pos = 4

\* The kind C7 gives to an identifier text.
C7_Kind(v) ==
    IF v = <<"i", "f">> THEN "IF"
    ELSE IF v = <<"w", "h", "i", "l", "e">> THEN "WHILE"
    ELSE IF v = <<"f", "o", "r">> THEN "FOR"
    ELSE IF v = <<"p", "r", "i", "n", "t">> THEN "PRINT"
    ELSE "IDENTIFIER"

\* C7: a token that starts on a letter or underscore covers the maximal run
\* of letters, digits and underscores, its text is that run, and its kind is
\* the keyword kind exactly for 'if', 'while', 'for', 'print'.
C7_Identifier ==
    \A i \in TokenIds :
        FirstChar(i) \in Letters \cup {"_"} =>
            /\ spans[i].to = RunEnd(spans[i].from, Letters \cup Digits \cup {"_"})
            /\ tokens[i].value = Covered(i)
            /\ tokens[i].type = C7_Kind(tokens[i].value)

\* 'if' was read as a keyword and 'if_' as one identifier.
C7_Witness ==
    /\ pc = "returned"
    /\ Len(tokens) = 3
    /\ tokens[1] = Token("IF", <<"i", "f">>, 1, 1)
    /\ tokens[2] = Token("IDENTIFIER", <<"i", "f", "_">>, 1, 4)

\* What C8 says a character after a backslash contributes.
C8_Escaped(x) == IF x = "n" THEN "\n" ELSE IF x = "t" THEN "\t" ELSE x

\* The decoded value of the body b of a literal, as C8 states it.
RECURSIVE C8_Decoded(_)
C8_Decoded(b) ==
    IF b = <<>> THEN <<>>
    ELSE IF Head(b) = "\\" /\ Len(b) >= 2
         THEN <<C8_Escaped(b[2])>> \o C8_Decoded(SubSeq(b, 3, Len(b)))
         ELSE <<Head(b)>> \o C8_Decoded(Tail(b))

\* C8: the text of a STRING token is the decoded body of its literal, the
\* characters between its two quotes.
C8_StringDecoded ==
    \A i \in TokenIds :
        tokens[i].type = "STRING" =>
            tokens[i].value =
                C8_Decoded(SubSeq(text, spans[i].from + 2, spans[i].to - 1))

\* A literal with an escaped n and the other quote in it was decoded.
C8_Witness ==
    \E i \in TokenIds :
        /\ tokens[i].type = "STRING"
        /\ Covered(i) = <<"'", "\\", "n", "\"", "'">>
        /\ tokens[i].value = <<"\n", "\"">>

\* C9: a token that starts on a digit is a NUMBER that covers the maximal
\* digit run, then, only if a '.' follows, that '.' and the maximal digit
\* run after it, and nothing more; its text is the characters covered.
C9_Number ==
    \A i \in TokenIds :
        FirstChar(i) \in Digits =>
            LET k == RunEnd(spans[i].from, Digits)
                e == IF current_char(k) = "." THEN RunEnd(k + 1, Digits) ELSE k
            IN  /\ tokens[i].type = "NUMBER"
                /\ spans[i].to = e
                /\ tokens[i].value = Covered(i)

\* On '1.2.3' the reader emitted '1.2' and the second '.' was dispatched next.
C9_Witness ==
    /\ text = <<"1", ".", "2", ".", "3">>
    /\ tokens = <<Token("NUMBER", <<"1", ".", "2">>, 1, 1)>>
    /\ pc = "raised"
    /\ error = UnexpectedCharacter(".", 1, 4)

\* C10 (as claimed): the text of every token but STRING and EOF is the
\* source characters the token covers.
C10_VerbatimText ==
    \A i \in TokenIds :
        tokens[i].type \notin {"STRING", "EOF"} => tokens[i].value = Covered(i)

\* The character at index p (1-based) is a space or tab outside the string
\* literals.
C11_Skipped(p) ==
    /\ text[p] \in {" ", "\t"}
    /\ ~\E i \in TokenIds :
           /\ tokens[i].type = "STRING"
           /\ spans[i].from < p /\ p <= spans[i].to

\* The text from index p on, without the spaces and tabs outside the string
\* literals.
RECURSIVE C11_Kept(_)
C11_Kept(p) ==
    IF p > Len(text) THEN <<>>
    ELSE (IF C11_Skipped(p) THEN <<>> ELSE <<text[p]>>) \o C11_Kept(p + 1)

\* C11: when tokenize() returns, the spans of the tokens are disjoint and
\* increasing, and joined in order they are the text without the spaces and
\* tabs outside the string literals.
C11_SpansCoverText ==
    pc = "returned" =>
        /\ \A i \in TokenIds :
               /\ 0 <= spans[i].from /\ spans[i].to <= Len(text)
               /\ i < Len(tokens) =>
                      /\ spans[i].from < spans[i].to
                      /\ spans[i].to <= spans[i + 1].from
        /\ Concat([i \in TokenIds |-> Covered(i)]) = C11_Kept(1)

\* A text with a space inside a literal, a space outside and a newline was
\* tokenized.
C11_Witness ==
    /\ pc = "returned"
    /\ text = <<"\"", " ", "\"", " ", "\n">>
    /\ Len(tokens) = 3

\* C12: a call that meets a fault fails there and then: the step that
\* raises adds no token and leaves the cursor within the text (on the
\* offending character, for an unrecognized one); a failed call takes no
\* further step, so it scans nothing more and returns nothing; a call that
\* returns has met no fault.
C12_AllOrNothing ==
    [][/\ pc = "raised" => UNCHANGED vars
       /\ pc = "returned" => UNCHANGED vars
       /\ error' # NoError <=> pc' = "raised"
       /\ (pc # "raised" /\ pc' = "raised") =>
              /\ tokens' = tokens
              /\ pos' <= Len(text)
              /\ error'.kind = "UnexpectedCharacter" =>
                     pos' = pos /\ current_char(pos) = error'.ch]_vars

\* The call failed after two tokens, with more text after the fault.
C12_Witness ==
    /\ pc = "raised"
    /\ Len(tokens) = 2
    /\ pos + 1 < Len(text)

\* C13: in every state the cursor is within the text and line and column
\* are those of the character at pos, counted from the text; advance() from
\* there adds 1 to pos, and either adds 1 to line and sets column to 1 (past
\* a newline) or adds 1 to column (past anything else).
C13_CursorPosition ==
    /\ 0 <= pos /\ pos <= Len(text)
    /\ line = LineAt(pos)
    /\ column = ColumnAt(pos)
    /\ LET a == advance(Cursor)
       IN  /\ a.pos = pos + 1
           /\ IF current_char(pos) = "\n"
              THEN a.line = line + 1 /\ a.column = 1
              ELSE a.line = line /\ a.column = column + 1

\* The identifier reader stands on the third line, past one character.
C13_Witness ==
    /\ pc = "read_identifier"
    /\ line = 3 /\ column = 2
    /\ pos = 3

-----------------------------------------------------------------------------
(* What the claims on the scope manager speak of. *)

\* The scope at place i of the stack holds the name.
Holds(i, name) == name \in DOMAIN scopes[scope_stack[i]].variables

\* ScopeManager.get_variable(name)
Lookup(name) == get_variable(scopes, current_scope, name)

\* The step is a call of op on the manager.
IsCall(op) == calls' = calls + 1 /\ last_call'.op = op

\* C14: get_variable(name) is the variable of the innermost active scope
\* that holds the name, None when none does; and a define_variable leaves
\* every variable that existed as it was.
C14_Innermost ==
    [][/\ \A name \in Names :
              LET at == {i \in 1..Len(scope_stack') :
                            name \in DOMAIN scopes'[scope_stack'[i]].variables}
                  top == CHOOSE i \in at : \A j \in at : j <= i
                  got == get_variable(scopes', current_scope', name)
              IN  IF at = {} THEN got = NoVariable
                  ELSE got = scopes'[scope_stack'[top]].variables[name]
       /\ IsCall("define_variable") =>
              \A id \in 1..Len(scopes) :
                  \A n \in DOMAIN scopes[id].variables :
                      scopes'[id].variables[n] = scopes[id].variables[n]]_vars

\* x is defined in the global scope and, with another value, in the current
\* inner scope, and the lookup gives the inner one.
C14_Witness ==
    /\ Len(scope_stack) = 2
    /\ Holds(1, "x") /\ Holds(2, "x")
    /\ scopes[scope_stack[1]].variables["x"].value = PyValue("int", 1)
    /\ Lookup("x").value = PyValue("float", 1)

\* C15: when exit_scope() pops a scope, a name held only by the popped scope
\* no longer resolves, and a name held by a scope that stays resolves to the
\* variable of the innermost such scope, as it was before the call.
C15_ExitDropsLocals ==
    [][(IsCall("exit_scope") /\ last_call'.ret = "Scope") =>
           LET popped == last_call'.scope
               stay == {i \in 1..(Len(scope_stack) - 1) : TRUE}
           IN  \A name \in Names :
                   LET at == {i \in stay : Holds(i, name)}
                       top == CHOOSE i \in at : \A j \in at : j <= i
                       got == get_variable(scopes', current_scope', name)
                   IN  /\ popped = scope_stack[Len(scope_stack)]
                       /\ IF at = {} THEN got = NoVariable
                          ELSE got = scopes[scope_stack[top]].variables[name]]_vars

\* After an exit, y of the popped scope does not resolve and x of the global
\* scope does.
C15_Witness ==
    /\ last_call.op = "exit_scope" /\ last_call.ret = "Scope"
    /\ "y" \in DOMAIN scopes[last_call.scope].variables
    /\ Lookup("y") = NoVariable
    /\ Lookup("x") # NoVariable

\* C16: define_variable fails with NameError exactly when the current scope
\* itself holds the name, and then changes no scope.
C16_DefineTwice ==
    [][IsCall("define_variable") =>
           /\ last_call'.raised = "NameError" <=>
                  last_call'.name \in DOMAIN scopes[current_scope].variables
           /\ last_call'.raised \in {"", "NameError"}
           /\ last_call'.raised = "NameError" =>
                  /\ scopes' = scopes
                  /\ scope_stack' = scope_stack
                  /\ current_scope' = current_scope]_vars

\* x was defined in the inner scope although the global scope holds x, and
\* defining it there again failed.
C16_Witness ==
    /\ last_call = Call("define_variable", "x", "NameError", "", NoScope)
    /\ Len(scope_stack) = 2
    /\ Holds(1, "x") /\ Holds(2, "x")

\* C17: no call changes a variable defined as a constant, and a
\* set_variable that resolves to a constant fails with ValueError and
\* changes no scope.
C17_Constant ==
    [][/\ \A id \in 1..Len(scopes) :
              \A n \in DOMAIN scopes[id].variables :
                  scopes[id].variables[n].is_constant =>
                      scopes'[id].variables[n] = scopes[id].variables[n]
       /\ (/\ IsCall("set_variable")
           /\ get_variable(scopes, current_scope, last_call'.name).is_constant) =>
              /\ last_call'.raised = "ValueError"
              /\ scopes' = scopes]_vars

\* From an inner scope, assigning to a constant of the global scope failed.
C17_Witness ==
    /\ last_call = Call("set_variable", "x", "ValueError", "", NoScope)
    /\ Len(scope_stack) = 2
    /\ Holds(1, "x") /\ ~Holds(2, "x")
    /\ scopes[scope_stack[1]].variables["x"].is_constant

-----------------------------------------------------------------------------
(* Quotes, order and progress of the lexer. *)

NoClose == 0 - 1

\* The place of the first unescaped q in the text at or after place p, a
\* backslash escaping the character after it; NoClose when there is none.
RECURSIVE FirstClose(_, _)
FirstClose(p, q) ==
    IF p >= Len(text) THEN NoClose
    ELSE IF text[p + 1] = q THEN p
    ELSE IF text[p + 1] = "\\" THEN FirstClose(p + 2, q)
    ELSE FirstClose(p + 1, q)

\* C18: a STRING token opened by a quote character ends exactly at the first
\* later unescaped occurrence of the same character, whatever else, the
\* other quote character included, lies between; while the body is read no
\* such occurrence has been passed; and the literal is reported unterminated
\* only when there is none.
C18_QuotesMatched ==
    /\ \A i \in TokenIds :
           tokens[i].type = "STRING" =>
               /\ FirstChar(i) \in {"\"", "'"}
               /\ spans[i].to - 1 = FirstClose(spans[i].from + 1, FirstChar(i))
    /\ pc = "read_string" =>
           LET close == FirstClose(start_pos + 1, quote_char)
           IN  close = NoClose \/ close >= pos
    /\ error.kind = UnterminatedString(1, 1).kind =>
           FirstClose(start_pos + 1, quote_char) = NoClose

\* The literal '"\'' was read: its body holds the other quote character and
\* an escaped opening quote, and it ends at the fifth character.
C18_Witness ==
    /\ text = <<"'", "\"", "\\", "'", "'">>
    /\ Len(tokens) >= 1
    /\ tokens[1].type = "STRING"
    /\ tokens[1].value = <<"\"", "'">>
    /\ spans[1].to = 5

\* (line, column) of token a is before that of token b.
Before(a, b) ==
    a.line < b.line \/ (a.line = b.line /\ a.column < b.column)

\* C19: in a returned sequence the reported (line, column) strictly
\* increases from each token to the next, except that the final EOF is at
\* least not before its predecessor.
C19_SourceOrder ==
    pc = "returned" =>
        \A i \in 1..(Len(tokens) - 1) :
            IF i + 1 = Len(tokens)
            THEN ~Before(tokens[i + 1], tokens[i])
            ELSE Before(tokens[i], tokens[i + 1])

\* What is left to do: the characters not yet passed, and within one
\* character the place in the pass of the loop.
Variant ==
    4 * (Len(text) - pos)
      + (IF pc \in {"returned", "raised"} THEN 0
         ELSE IF pc = "tokenize" THEN 2
         ELSE IF pos = iter_pos THEN 1
         ELSE 3)

\* C20: tokenize() terminates: pos stays within the text and never
\* decreases, a pass of the loop that does not fail ends with pos beyond
\* where it began, the passes number at most len(text), every step brings
\* the end nearer, and only a returned or failed call has no step to take.
C20_Terminates ==
    /\ [](/\ 0 <= pos /\ pos <= Len(text)
          /\ iterations <= Len(text)
          /\ Variant >= 0
          /\ pc \in {"tokenize", "skip_whitespace", "read_number_int",
                     "read_number_frac", "read_string",
                     "read_identifier"} => ENABLED Next)
    /\ [][/\ pos' >= pos
          /\ pc' = "tokenize" => pos' > iter_pos'
          /\ Variant' < Variant]_vars

\* A text of as many tokens as characters was tokenized in len(text) passes.
C20_Witness ==
    /\ pc = "returned"
    /\ Len(text) = MaxLen
    /\ iterations = Len(text)
    /\ pos = Len(text)

-----------------------------------------------------------------------------
(* The stack of scopes, assignment and type inference. *)

\* C21: scope_stack is never empty, its bottom is the global scope, its top
\* is current_scope, and each element above the bottom has the element below
\* it as parent; exit_scope() with only the global scope active returns None
\* and changes nothing, and otherwise returns the scope it pops.
C21_StackShape ==
    /\ [](/\ Len(scope_stack) >= 1
          /\ scope_stack[1] = global_scope
          /\ scopes[global_scope].parent = NoScope
          /\ scope_stack[Len(scope_stack)] = current_scope
          /\ \A i \in 2..Len(scope_stack) :
                 scopes[scope_stack[i]].parent = scope_stack[i - 1])
    /\ [][IsCall("exit_scope") =>
              IF Len(scope_stack) = 1
              THEN /\ last_call'.ret = "None"
                   /\ scopes' = scopes
                   /\ scope_stack' = scope_stack
                   /\ current_scope' = current_scope
                   /\ global_scope' = global_scope
              ELSE /\ last_call'.ret = "Scope"
                   /\ last_call'.scope = scope_stack[Len(scope_stack)]
                   /\ scope_stack' =
                          SubSeq(scope_stack, 1, Len(scope_stack) - 1)]_vars

\* Three scopes are active after a fourth was entered and exited.
C21_Witness ==
    /\ last_call.op = "exit_scope" /\ last_call.ret = "Scope"
    /\ Len(scope_stack) = 3
    /\ Len(scopes) = 4
    /\ last_call.scope = 4

\* The place in the stack of the innermost active scope that holds the name,
\* 0 when no active scope holds it.
Innermost(name) ==
    LET at == {i \in 1..Len(scope_stack) : Holds(i, name)}
    IN  IF at = {} THEN 0 ELSE CHOOSE i \in at : \A j \in at : j <= i

C23_SetUndefined ==
    [][\A name \in Names :
           (/\ IsCall("set_variable")
            /\ last_call'.name = name
            /\ Innermost(name) = 0)
           => /\ last_call' = Call("set_variable", name, "", "False", NoScope)
              /\ scopes' = scopes
              /\ scope_stack' = scope_stack
              /\ current_scope' = current_scope]_vars

\* In an inner scope, with x defined in the global scope, assigning to the
\* undefined y returned False, and y is still undefined.
C23_Witness ==
    /\ last_call = Call("set_variable", "y", "", "False", NoScope)
    /\ Len(scope_stack) = 2
    /\ Holds(1, "x")
    /\ Lookup("y") = NoVariable

\* The type the value is said to get: 'int' for an integer, 'float' for a
\* float, 'string' for a string, 'list' for a list, 'bool' for True or False,
\* 'unknown' for any other value.
type_of(value) ==
    IF value.py = "bool" THEN "bool"
    ELSE IF value.py = "int" THEN "int"
    ELSE IF value.py = "float" THEN "float"
    ELSE IF value.py = "str" THEN "string"
    ELSE IF value.py = "list" THEN "list"
    ELSE "unknown"

\* C24: a define_variable without var_type that succeeds gives the variable
\* the type of its value: 'int', 'float', 'string', 'list', 'bool' for a
\* boolean, 'unknown' for anything else.
C24_InferredType ==
    [][\A name \in Names, value \in DefineValues, is_constant \in BOOLEAN :
           (/\ DefineVariable(name, value, None, is_constant, 1)
            /\ last_call'.raised = "")
           => scopes'[current_scope].variables[name].var_type
                  = type_of(value)]_vars

=============================================================================
